---- MODULE Spec2Model ----
(***************************************************************************)
(* Model of the vote handler of pinocchio_multisig:                        *)
(*   src/src/instructions/process_vote.rs, process_vote_instruction.       *)
(*                                                                         *)
(* The state is the record store the handler reads and writes (multisig,   *)
(* config, proposal and vote-state accounts, keyed by address) and the     *)
(* cluster clock.  One action, Vote, runs the whole handler on one call;   *)
(* Tick advances the clock.  The handler itself is the operator            *)
(* ProcessVote, a function of the store and of the call.                   *)
(***************************************************************************)
EXTENDS Integers, FiniteSets, Sequences, TLC

VARIABLES
    multisigs,      \* address -> Multisig account (owner, num_members, members)
    configs,        \* address -> MultisigConfig account (owner, min_threshold)
    proposals,      \* address -> ProposalState account
    ballots,        \* address -> VoteState account
    now,            \* Clock::get().unix_timestamp
    last,           \* outcome of the latest call ("none" before the first)
    voted,          \* history: the voters whose call succeeded
    ok_calls,       \* history: the number of calls that succeeded
    initial_result, \* history: the status the proposal started with
    initial_ballot  \* history: the vote-state account the proposal started with

vars == <<multisigs, configs, proposals, ballots, now, last, voted, ok_calls,
          initial_result, initial_ballot>>

(***************************************************************************)
(* Bounds of the model and constants of the program.                       *)
(***************************************************************************)
\* Capacity of Multisig.members / ProposalState.votes: the tally scans min(num_members, 10).
Capacity == 10
\* Largest num_members an initial group has.
MaxMembers == 2
\* Largest min_threshold an initial config has.
MaxThreshold == 2
\* The clock runs from 0 to MaxTime.
MaxTime == 1
\* Expiry of the proposals.
Expiry == 0
\* Bumps are 0..MaxBump; MaxBump is the canonical bump of the proposal.
MaxBump == 2
\* vote_count is capped: no vote is processed once it reached MaxVoteCount.
MaxVoteCount == 3
\* proposal_id of the proposal under vote (the tests' value).
PROPOSAL_ID == 12345

ID == "program"
SYSTEM == "system"
FOREIGN == "foreign"

MULTISIG == "multisig"
FOREIGN_MULTISIG == "multisig_foreign"
OTHER_MULTISIG == "multisig_other"
CONFIG == "config"
FOREIGN_CONFIG == "config_foreign"

Status == {"Active", "Succeeded", "Failed", "Cancelled"}
Voters == 1..(MaxMembers + 1)
Slots == 0..(Capacity - 1)
WritableAccounts == {"multisig", "proposal_state", "vote_state"}

(***************************************************************************)
(* Address derivation.  An address derived from seeds is the seeds         *)
(* themselves (derivation is injective); create_program_address fails for  *)
(* seeds that hash onto the curve, here the seeds with bump 0.             *)
(***************************************************************************)
OnCurve(seeds) == seeds[4] = 0

checked_create_program_address(seeds) ==
    IF OnCurve(seeds) THEN [ok |-> FALSE, key |-> seeds]
                      ELSE [ok |-> TRUE, key |-> seeds]

find_program_address(seeds) == seeds

proposal_seed(c) == <<"proposal", c.multisig, c.proposal_id, c.bump>>

vote_state_seed(c) == <<"vote_state", c.multisig, c.proposal_id, c.bump>>

\* The addresses of the store.
PROPOSAL == <<"proposal", MULTISIG, PROPOSAL_ID, MaxBump>>
\* a proposal record stored under the address of the next proposal_id
MISFILED_PROPOSAL == <<"proposal", MULTISIG, PROPOSAL_ID + 1, MaxBump>>
\* the proposal of another group with the same proposal_id
OTHER_PROPOSAL == <<"proposal", OTHER_MULTISIG, PROPOSAL_ID, MaxBump>>
BALLOT == <<"vote_state", MULTISIG, PROPOSAL_ID, MaxBump>>
OTHER_BALLOT == <<"vote_state", OTHER_MULTISIG, PROPOSAL_ID, MaxBump>>
\* a look-alike of the proposal that another program owns
FOREIGN_PROPOSAL == <<"proposal", FOREIGN_MULTISIG, PROPOSAL_ID, MaxBump>>

ProposalKeys == {PROPOSAL, MISFILED_PROPOSAL, OTHER_PROPOSAL, FOREIGN_PROPOSAL}
BallotKeys == {BALLOT, OTHER_BALLOT}
MultisigKeys == {MULTISIG, FOREIGN_MULTISIG}
ConfigKeys == {CONFIG, FOREIGN_CONFIG}

NoVotes == [i \in Slots |-> 0]

(***************************************************************************)
(* Calls.  A call names the five accounts it supplies (by address), their  *)
(* signer and writable flags, and the instruction data (proposal_id,       *)
(* vote_choice, bump).  payer_funded says whether the voter can fund the   *)
(* creation of the vote-state account.                                     *)
(***************************************************************************)
ValidCall(v, ch) ==
    [ data_len |-> 10, n_accounts |-> 5,
      voter |-> v, is_signer |-> TRUE,
      multisig |-> MULTISIG, proposal_state |-> PROPOSAL,
      vote_state |-> BALLOT, multisig_config |-> CONFIG,
      writable |-> [a \in WritableAccounts |-> TRUE],
      proposal_id |-> PROPOSAL_ID, vote_choice |-> ch, bump |-> MaxBump,
      payer_funded |-> TRUE ]

Faults ==
    { "none", "short_data", "few_accounts", "not_signer",
      "ro_multisig", "ro_proposal_state", "ro_vote_state",
      "foreign_multisig", "foreign_proposal", "foreign_config",
      "other_proposal", "misfiled_proposal", "wrong_id",
      "bump_on_curve", "bump_other", "other_ballot", "unfunded", "invalid_choice" }

\* The call c with one of its inputs changed.
WithFault(c, f) ==
    CASE f = "none" -> c
      [] f = "short_data" -> [c EXCEPT !.data_len = 9]
      [] f = "few_accounts" -> [c EXCEPT !.n_accounts = 4]
      [] f = "not_signer" -> [c EXCEPT !.is_signer = FALSE]
      [] f = "ro_multisig" -> [c EXCEPT !.writable["multisig"] = FALSE]
      [] f = "ro_proposal_state" -> [c EXCEPT !.writable["proposal_state"] = FALSE]
      [] f = "ro_vote_state" -> [c EXCEPT !.writable["vote_state"] = FALSE]
      [] f = "foreign_multisig" -> [c EXCEPT !.multisig = FOREIGN_MULTISIG]
      [] f = "foreign_proposal" -> [c EXCEPT !.proposal_state = FOREIGN_PROPOSAL]
      [] f = "foreign_config" -> [c EXCEPT !.multisig_config = FOREIGN_CONFIG]
      [] f = "other_proposal" -> [c EXCEPT !.proposal_state = OTHER_PROPOSAL]
      [] f = "misfiled_proposal" ->
            [c EXCEPT !.proposal_state = MISFILED_PROPOSAL, !.proposal_id = PROPOSAL_ID + 1]
      [] f = "wrong_id" -> [c EXCEPT !.proposal_id = PROPOSAL_ID + 1]
      [] f = "bump_on_curve" -> [c EXCEPT !.bump = 0]
      [] f = "bump_other" -> [c EXCEPT !.bump = 1]
      [] f = "other_ballot" -> [c EXCEPT !.vote_state = OTHER_BALLOT]
      [] f = "unfunded" -> [c EXCEPT !.payer_funded = FALSE]
      [] f = "invalid_choice" -> [c EXCEPT !.vote_choice = 4]

\* vote_choice is a byte; 0..4 covers the legal choices, 0 and one value above 3.
Choices == 0..4

\* The voters whose calls are varied: a member of every group of two or more,
\* and a key that is in no group.
FaultVoters == {2, MaxMembers + 1}

\* The voter of the calls with one input changed: a member of the groups of
\* two or more, no member of a group of one.
FaultVoter == 2

\* The calls of the model: every voter with every choice, and a For vote with
\* one input changed.
Calls ==
    { ValidCall(v, ch) : v \in Voters, ch \in Choices }
        \cup { WithFault(ValidCall(FaultVoter, 1), f) : f \in Faults }

\* The votes with a legal choice and no input changed.
ValidVotes == { ValidCall(v, ch) : v \in Voters, ch \in {1, 2, 3} }

\* A For vote with two of its inputs changed.
PairCalls ==
    { WithFault(WithFault(ValidCall(v, 1), f), g) : v \in FaultVoters, f \in Faults, g \in Faults }

\* Every call of the model.
AllCalls == Calls \cup PairCalls

\* The calls that name the multisig account another program owns.
ForeignMultisigCalls == { c \in PairCalls : c.multisig = FOREIGN_MULTISIG }

(***************************************************************************)
(* The checks of process_vote_instruction, in the order of the code.       *)
(***************************************************************************)
HasData(c) == ~(c.data_len < 10)

HasAccounts(c) == c.n_accounts >= 5

\* mutant: the signature of the voter is not looked at
IsSigner_Unchecked(c) == TRUE

IsSigner(c) == c.is_signer

AllWritable(c) == \A a \in WritableAccounts : c.writable[a]

ValidChoice(vote_choice) == ~(vote_choice > 3)

\* mutant: the owner of the multisig account is not looked at
ProgramOwned_ProposalAndConfig(st, c) ==
    /\ st.proposals[c.proposal_state].owner = ID
    /\ st.configs[c.multisig_config].owner = ID

ProgramOwned(st, c) ==
    /\ st.multisigs[c.multisig].owner = ID
    /\ st.proposals[c.proposal_state].owner = ID
    /\ st.configs[c.multisig_config].owner = ID

NotFound == -1

\* mutant: the scan runs over the whole members array, not over 0..num_members
FindVoter_WholeArray(multisig_data, voter) ==
    LET hits == { i \in Slots : multisig_data.members[i] = voter }
    IN IF hits = {} THEN NotFound
       ELSE CHOOSE i \in hits : \A j \in hits : i <= j

\* (0..num_members).find(|i| members[i] == voter): the first matching index.
FindVoter(multisig_data, voter) ==
    LET hits == { i \in 0..(multisig_data.num_members - 1) : multisig_data.members[i] = voter }
    IN IF hits = {} THEN NotFound
       ELSE CHOOSE i \in hits : \A j \in hits : i <= j

\* mutant: a Failed proposal is taken for an open one
IsActive_OrFailed(proposal_data) == proposal_data.result \in {"Active", "Failed"}

\* mutant: the status is not looked at
IsActive_Always(proposal_data) == TRUE

IsActive(proposal_data) == proposal_data.result = "Active"

\* mutant: the expiry is not looked at before the vote
IsExpired_Never(current_time, proposal_data) == FALSE

\* mutant: the proposal counts as expired from its expiry time on
IsExpired_AtExpiry(current_time, proposal_data) == current_time >= proposal_data.expiry

IsExpired(current_time, proposal_data) == current_time > proposal_data.expiry

IsEligible(proposal_data, voter) == voter \in proposal_data.active_members

\* mutant: the vote-state address is not compared
VoteStateAddressMatches_Unchecked(c) == TRUE

VoteStateAddressMatches(c) == find_program_address(vote_state_seed(c)) = c.vote_state

\* mutant: any vote counted on the vote-state account is taken for the voter's own
AlreadyVoted_PerBallot(vote_state_data, voter_index) == vote_state_data.vote_count # 0

AlreadyVoted(vote_state_data, voter_index) == vote_state_data.votes[voter_index] # 0

(***************************************************************************)
(* The tally and the status it gives.                                      *)
(***************************************************************************)
Min(a, b) == IF a < b THEN a ELSE b

CountVotes(votes, n, choice) == Cardinality({ i \in 0..(n - 1) : votes[i] = choice })

active_member_count(multisig_data) == Min(multisig_data.num_members, Capacity)

\* mutant: Abstain votes are counted as For votes
for_votes_WithAbstain(votes, n) == CountVotes(votes, n, 1) + CountVotes(votes, n, 3)

for_votes(votes, n) == CountVotes(votes, n, 1)

against_votes(votes, n) == CountVotes(votes, n, 2)

abstain_votes(votes, n) == CountVotes(votes, n, 3)

\* mutant: the thresholds are compared with > instead of >=
NextResult_Exclusive(for, against, min_threshold, current_time, expiry) ==
    IF for > min_threshold THEN "Succeeded"
    ELSE IF against > min_threshold THEN "Failed"
    ELSE IF current_time > expiry THEN "Cancelled"
    ELSE "Active"

NextResult(for, against, min_threshold, current_time, expiry) ==
    IF for >= min_threshold THEN "Succeeded"
    ELSE IF against >= min_threshold THEN "Failed"
    ELSE IF current_time > expiry THEN "Cancelled"
    ELSE "Active"

\* An early return: the error, and the accounts as they were.
Reject(st, e) ==
    [res |-> e, multisigs |-> st.multisigs, configs |-> st.configs,
     proposals |-> st.proposals, ballots |-> st.ballots]

\* mutant: the votes array is written anew, with the voter's slot only
CastVote_FreshVotes(st, c, voter_index, vote_state_data) ==
    LET proposal_data == st.proposals[c.proposal_state]
        votes == [NoVotes EXCEPT ![voter_index] = c.vote_choice]
        n == active_member_count(st.multisigs[c.multisig])
        result == NextResult(for_votes(votes, n), against_votes(votes, n),
                             st.configs[c.multisig_config].min_threshold,
                             st.now, proposal_data.expiry)
    IN [ res |-> "Ok",
         multisigs |-> st.multisigs,
         configs |-> st.configs,
         proposals |-> [st.proposals EXCEPT ![c.proposal_state] =
                            [proposal_data EXCEPT !.votes = votes, !.result = result]],
         ballots |-> [st.ballots EXCEPT ![c.vote_state] = vote_state_data] ]

\* mutant: a vote that is cast resets min_threshold of the config
CastVote_ResetsThreshold(st, c, voter_index, vote_state_data) ==
    LET proposal_data == st.proposals[c.proposal_state]
        votes == [proposal_data.votes EXCEPT ![voter_index] = c.vote_choice]
        n == active_member_count(st.multisigs[c.multisig])
        result == NextResult(for_votes(votes, n), against_votes(votes, n),
                             st.configs[c.multisig_config].min_threshold,
                             st.now, proposal_data.expiry)
    IN [ res |-> "Ok",
         multisigs |-> st.multisigs,
         configs |-> [st.configs EXCEPT ![c.multisig_config].min_threshold = 0],
         proposals |-> [st.proposals EXCEPT ![c.proposal_state] =
                            [proposal_data EXCEPT !.votes = votes, !.result = result]],
         ballots |-> [st.ballots EXCEPT ![c.vote_state] = vote_state_data] ]

\* proposal_data.votes[voter_index] = vote_choice, the tally and the new status.
CastVote(st, c, voter_index, vote_state_data) ==
    LET proposal_data == st.proposals[c.proposal_state]
        votes == [proposal_data.votes EXCEPT ![voter_index] = c.vote_choice]
        n == active_member_count(st.multisigs[c.multisig])
        result == NextResult(for_votes(votes, n), against_votes(votes, n),
                             st.configs[c.multisig_config].min_threshold,
                             st.now, proposal_data.expiry)
    IN [ res |-> "Ok",
         multisigs |-> st.multisigs,
         configs |-> st.configs,
         proposals |-> [st.proposals EXCEPT ![c.proposal_state] =
                            [proposal_data EXCEPT !.votes = votes, !.result = result]],
         ballots |-> [st.ballots EXCEPT ![c.vote_state] = vote_state_data] ]

\* A created vote-state account: zeroed data, then the three fields set.
NewVoteState(bump) ==
    [owner |-> ID, has_permission |-> TRUE, vote_count |-> 1, bump |-> bump, votes |-> NoVotes]

\* mutant: a vote on an existing vote-state account is not counted
UpdateVoteState_NoIncrement(st, c, voter_index) ==
    LET vote_state_data == st.ballots[c.vote_state] IN
    IF vote_state_data.owner # ID
    THEN IF ~c.payer_funded THEN Reject(st, "CreateAccountFailed")
         ELSE CastVote(st, c, voter_index, NewVoteState(c.bump))
    ELSE IF ~vote_state_data.has_permission THEN Reject(st, "PermissionDenied")
    ELSE IF AlreadyVoted(vote_state_data, voter_index) THEN Reject(st, "DuplicateVote")
    ELSE CastVote(st, c, voter_index, vote_state_data)

\* mutant: vote_count is incremented before has_permission and the mark are checked
UpdateVoteState_CountsFirst(st, c, voter_index) ==
    LET vote_state_data == st.ballots[c.vote_state]
        counted == [vote_state_data EXCEPT !.vote_count = vote_state_data.vote_count + 1]
        written == [st EXCEPT !.ballots[c.vote_state] = counted]
    IN IF vote_state_data.owner # ID
       THEN IF ~c.payer_funded THEN Reject(st, "CreateAccountFailed")
            ELSE CastVote(st, c, voter_index, NewVoteState(c.bump))
       ELSE IF ~vote_state_data.has_permission THEN Reject(written, "PermissionDenied")
       ELSE IF AlreadyVoted(vote_state_data, voter_index) THEN Reject(written, "DuplicateVote")
       ELSE CastVote(st, c, voter_index, counted)

\* Creation or update of the vote-state account, then the vote.
UpdateVoteState(st, c, voter_index) ==
    LET vote_state_data == st.ballots[c.vote_state] IN
    IF vote_state_data.owner # ID
    THEN IF ~c.payer_funded THEN Reject(st, "CreateAccountFailed")
         ELSE CastVote(st, c, voter_index, NewVoteState(c.bump))
    ELSE IF ~vote_state_data.has_permission THEN Reject(st, "PermissionDenied")
    ELSE IF AlreadyVoted(vote_state_data, voter_index) THEN Reject(st, "DuplicateVote")
    ELSE CastVote(st, c, voter_index,
                  [vote_state_data EXCEPT !.vote_count = vote_state_data.vote_count + 1])

\* The checks on the proposal and the vote-state address, once the voter is found.
CheckProposal(st, c, voter_index) ==
    LET proposal_pda == checked_create_program_address(proposal_seed(c))
        proposal_data == st.proposals[c.proposal_state]
    IN IF ~proposal_pda.ok THEN Reject(st, "InvalidSeeds")
       ELSE IF proposal_pda.key # c.proposal_state THEN Reject(st, "BadProposalAddress")
       ELSE IF proposal_data.proposal_id # c.proposal_id THEN Reject(st, "ProposalMismatch")
       ELSE IF ~IsActive(proposal_data) THEN Reject(st, "ProposalNotActive")
       ELSE IF IsExpired(st.now, proposal_data) THEN Reject(st, "ProposalExpired")
       ELSE IF ~IsEligible(proposal_data, c.voter) THEN Reject(st, "NotEligible")
       ELSE IF ~VoteStateAddressMatches(c) THEN Reject(st, "BadBallotAddress")
       ELSE UpdateVoteState(st, c, voter_index)

\* process_vote_instruction(accounts, data): the outcome and the store after it.
ProcessVote(st, c) ==
    IF ~HasData(c) THEN Reject(st, "MalformedInstruction")
    ELSE IF ~HasAccounts(c) THEN Reject(st, "NotEnoughAccountKeys")
    ELSE IF ~IsSigner(c) THEN Reject(st, "Unauthorized")
    ELSE IF ~AllWritable(c) THEN Reject(st, "NotWritable")
    ELSE IF ~ValidChoice(c.vote_choice) THEN Reject(st, "InvalidChoice")
    ELSE IF ~ProgramOwned(st, c) THEN Reject(st, "WrongOwner")
    ELSE LET voter_index == FindVoter(st.multisigs[c.multisig], c.voter) IN
         IF voter_index = NotFound THEN Reject(st, "NotAMember")
         ELSE CheckProposal(st, c, voter_index)

\* The ProgramError the code returns at each rejection.
ProgramError(res) ==
    CASE res = "MalformedInstruction" -> "InvalidInstructionData"
      [] res = "NotEnoughAccountKeys" -> "NotEnoughAccountKeys"
      [] res = "Unauthorized" -> "MissingRequiredSignature"
      [] res = "InvalidChoice" -> "InvalidInstructionData"
      [] res = "WrongOwner" -> "IncorrectProgramId"
      [] res = "InvalidSeeds" -> "InvalidSeeds"
      [] res = "CreateAccountFailed" -> "Custom"
      [] res = "Ok" -> "Ok"
      [] OTHER -> "InvalidAccountData"

(***************************************************************************)
(* The state machine.                                                      *)
(***************************************************************************)
Store == [multisigs |-> multisigs, configs |-> configs, proposals |-> proposals,
          ballots |-> ballots, now |-> now]

Members == [i \in Slots |-> i + 1]

InitProposal(status, active) ==
    [owner |-> ID, proposal_id |-> PROPOSAL_ID, result |-> status, expiry |-> Expiry,
     active_members |-> active, votes |-> NoVotes]

\* The vote-state account of the proposal before the first call: not created
\* yet, or created before with the mark of the first member's vote, or created
\* before and without permission.
BallotKinds == {"absent", "voted", "denied"}

InitBallot(kind) ==
    CASE kind = "absent" -> [owner |-> SYSTEM, has_permission |-> FALSE, vote_count |-> 0,
                             bump |-> 0, votes |-> NoVotes]
      [] kind = "voted" -> [NewVoteState(MaxBump) EXCEPT !.votes[0] = 1]
      [] kind = "denied" -> [NewVoteState(MaxBump) EXCEPT !.has_permission = FALSE]

Init ==
    /\ \E n \in 1..MaxMembers :
         multisigs = [k \in MultisigKeys |->
                        [owner |-> IF k = MULTISIG THEN ID ELSE FOREIGN,
                         num_members |-> n, members |-> Members]]
    /\ \E t \in 0..MaxThreshold :
         configs = [k \in ConfigKeys |->
                      [owner |-> IF k = CONFIG THEN ID ELSE FOREIGN, min_threshold |-> t]]
    /\ \E status \in Status, excluded \in {0, 1} :
         proposals = [k \in ProposalKeys |->
                        IF k = PROPOSAL THEN InitProposal(status, Voters \ {excluded})
                        ELSE IF k = FOREIGN_PROPOSAL
                             THEN [InitProposal("Active", Voters) EXCEPT !.owner = FOREIGN]
                        ELSE InitProposal("Active", Voters)]
    /\ \E kind \in BallotKinds :
         /\ ballots = [k \in BallotKeys |->
                         IF k = BALLOT THEN InitBallot(kind) ELSE NewVoteState(MaxBump)]
         /\ initial_ballot = kind
    /\ now = 0
    /\ last = "none"
    /\ voted = {}
    /\ ok_calls = 0
    /\ initial_result = proposals[PROPOSAL].result

\* One call of process_vote_instruction, run to completion.
Vote ==
    /\ ballots[BALLOT].vote_count < MaxVoteCount
    /\ \E c \in Calls :
         \E r \in {ProcessVote(Store, c)} :
         /\ multisigs' = r.multisigs
         /\ configs' = r.configs
         /\ proposals' = r.proposals
         /\ ballots' = r.ballots
         /\ last' = r.res
         /\ voted' = IF r.res = "Ok" THEN voted \cup {c.voter} ELSE voted
         /\ ok_calls' = IF r.res = "Ok" THEN ok_calls + 1 ELSE ok_calls
    /\ UNCHANGED <<now, initial_result, initial_ballot>>

\* The cluster clock advances.
Tick ==
    /\ now < MaxTime
    /\ now' = now + 1
    /\ UNCHANGED <<multisigs, configs, proposals, ballots, last, voted, ok_calls,
                   initial_result, initial_ballot>>

Next == Vote \/ Tick

Spec == Init /\ [][Next]_vars

(***************************************************************************)
(* The behaviours of the accounts alone.  A call that is rejected returns  *)
(* before the handler's first write, so only the calls that return Ok and  *)
(* the clock are steps here; the properties checked under SpecAccepted     *)
(* apply the handler to every call, rejected ones included, in each state. *)
(***************************************************************************)
\* One call of process_vote_instruction that returns Ok.
Accept ==
    /\ ballots[BALLOT].vote_count < MaxVoteCount
    /\ \E c \in Calls :
         \E r \in {ProcessVote(Store, c)} :
         /\ r.res = "Ok"
         /\ multisigs' = r.multisigs
         /\ configs' = r.configs
         /\ proposals' = r.proposals
         /\ ballots' = r.ballots
         /\ last' = r.res
         /\ voted' = voted \cup {c.voter}
         /\ ok_calls' = ok_calls + 1
    /\ UNCHANGED <<now, initial_result, initial_ballot>>

NextAccepted == Accept \/ Tick

SpecAccepted == Init /\ [][NextAccepted]_vars

(***************************************************************************)
(* The properties.  They are stated on the contract of the vote processor: *)
(* its preconditions, numbered as the contract lists them, and the tally,  *)
(* both written from the record fields and not from the handler's checks.  *)
(***************************************************************************)
TheProposal == proposals[PROPOSAL]

TheBallot == ballots[BALLOT]

TheThreshold == configs[CONFIG].min_threshold

\* The number of slots the tally looks at.
TallySlots == Min(multisigs[MULTISIG].num_members, Capacity)

\* The number of votes for `choice` among the first n slots of votes.
Tally(votes, n, choice) == Cardinality({ i \in Slots : i < n /\ votes[i] = choice })

IsMember(c) ==
    \E i \in Slots : /\ i < multisigs[c.multisig].num_members
                     /\ multisigs[c.multisig].members[i] = c.voter

\* Precondition k of the contract holds of the call c (0: the request is well formed).
Pre(c, k) ==
    CASE k = 0 -> c.data_len >= 10 /\ c.n_accounts >= 5
      [] k = 1 -> c.is_signer
      [] k = 2 -> \A a \in WritableAccounts : c.writable[a]
      [] k = 3 -> c.vote_choice \in {1, 2, 3}
      [] k = 4 -> /\ multisigs[c.multisig].owner = ID
                  /\ proposals[c.proposal_state].owner = ID
                  /\ configs[c.multisig_config].owner = ID
      [] k = 5 -> IsMember(c)
      [] k = 6 -> /\ ~OnCurve(proposal_seed(c))
                  /\ c.proposal_state = <<"proposal", c.multisig, c.proposal_id, c.bump>>
      [] k = 7 -> proposals[c.proposal_state].proposal_id = c.proposal_id
      [] k = 8 -> proposals[c.proposal_state].result = "Active"
      [] k = 9 -> now <= proposals[c.proposal_state].expiry
      [] k = 10 -> c.voter \in proposals[c.proposal_state].active_members
      [] k = 11 -> c.vote_state = <<"vote_state", c.multisig, c.proposal_id, c.bump>>

\* The preconditions 0..k hold of the call c.
PreUpTo(c, k) == \A j \in 0..k : Pre(c, j)

\* The call c is rejected with e and writes nothing.
Rejects(c, e) ==
    ProcessVote(Store, c) = [res |-> e, multisigs |-> multisigs, configs |-> configs,
                             proposals |-> proposals, ballots |-> ballots]

\* The voter of the call c has a recorded (non-zero) vote on the proposal.
HasRecordedVote(c) ==
    \E i \in Slots : /\ i < multisigs[c.multisig].num_members
                     /\ multisigs[c.multisig].members[i] = c.voter
                     /\ proposals[c.proposal_state].votes[i] # 0

(* C1: once a voter's vote on the proposal has succeeded and is recorded, every
   later vote of that voter on the same proposal_id (a call that meets all
   eleven preconditions, so the proposal is still Active and not expired) is
   rejected with DuplicateVote and changes nothing. *)
C1_SecondVoteRejected ==
    \A c \in Calls :
        (c.voter \in voted /\ HasRecordedVote(c) /\ PreUpTo(c, 11))
            => Rejects(c, "DuplicateVote")

(* C2: a slot of proposal.votes that holds a non-zero choice is never changed
   by a later step. *)
C2_VotesWriteOnce ==
    [][\A i \in Slots :
          TheProposal.votes[i] # 0 => proposals'[PROPOSAL].votes[i] = TheProposal.votes[i]]_vars

(* C3: a proposal whose status is not Active is not Active after any step. *)
C3_NeverActiveAgain ==
    [][\A k \in ProposalKeys :
          proposals[k].result # "Active" => proposals'[k].result # "Active"]_vars

\* The proposal went from Active to Failed and a vote submitted afterwards was turned away.
C3_Witness ==
    /\ initial_result = "Active"
    /\ TheProposal.result = "Failed"
    /\ last = "ProposalNotActive"

(* C4: a call that passes the checks before the status check (preconditions
   0..7) on a proposal that is not Active is rejected with ProposalNotActive
   and leaves every proposal and vote-state record as it was. *)
C4_TerminalImmutable ==
    \A c \in Calls :
        (PreUpTo(c, 7) /\ ~Pre(c, 8)) => Rejects(c, "ProposalNotActive")

\* A vote on a Succeeded proposal was rejected; the one recorded vote is still there.
C4_Witness ==
    /\ TheProposal.result = "Succeeded"
    /\ last = "ProposalNotActive"
    /\ TheBallot.vote_count = 1
    /\ \E c \in Calls : PreUpTo(c, 7) /\ ~Pre(c, 8)

(* C5: a well-formed call by a signer with writable accounts whose vote_choice
   is not 1, 2 or 3 is rejected with InvalidChoice and writes nothing. *)
C5_OnlyLegalChoices ==
    \A c \in Calls :
        (PreUpTo(c, 2) /\ ~Pre(c, 3)) => Rejects(c, "InvalidChoice")

\* The status the contract gives a proposal with these votes.
StatusOf(votes, n, min_threshold) ==
    IF Tally(votes, n, 1) >= min_threshold THEN "Succeeded"
    ELSE IF Tally(votes, n, 2) >= min_threshold THEN "Failed"
    ELSE "Active"

(* C6: after a call that succeeds, the status of the proposal it voted on is
   Succeeded if the For votes among the first min(num_members, 10) slots, the
   vote just cast included, reach min_threshold, otherwise Failed if the
   Against votes reach it, otherwise Active. *)
C6_StatusAfterVote ==
    \A c \in Calls : \A r \in {ProcessVote(Store, c)} :
        r.res = "Ok" =>
            r.proposals[c.proposal_state].result =
                StatusOf(r.proposals[c.proposal_state].votes,
                         Min(multisigs[c.multisig].num_members, 10),
                         configs[c.multisig_config].min_threshold)

\* Two members, threshold 1: the first vote, a For, made the proposal Succeeded.
C6_Witness ==
    /\ multisigs[MULTISIG].num_members = 2
    /\ TheThreshold = 1
    /\ last = "Ok"
    /\ ok_calls = 1
    /\ Tally(TheProposal.votes, TallySlots, 1) = 1
    /\ Tally(TheProposal.votes, TallySlots, 2) = 0
    /\ Tally(TheProposal.votes, TallySlots, 3) = 0
    /\ TheProposal.result = "Succeeded"

(* C7: as long as every successful call was made by a different voter, the
   For, Against and Abstain votes among the first min(num_members, 10) slots
   add up to the number of voters whose call succeeded. *)
C7_TallyCountsVoters ==
    ok_calls = Cardinality(voted) =>
        Tally(TheProposal.votes, TallySlots, 1) + Tally(TheProposal.votes, TallySlots, 2)
            + Tally(TheProposal.votes, TallySlots, 3) = Cardinality(voted)

(* C8: for a proposal that started Active with no votes and a threshold of at
   least 1, the status is Succeeded exactly when the For votes reach the
   threshold; Failed implies that the Against votes reach it and the For votes
   do not; Active implies that neither reaches it. *)
C8_StatusAgreesWithTally ==
    LET for == Tally(TheProposal.votes, TallySlots, 1)
        against == Tally(TheProposal.votes, TallySlots, 2)
    IN (initial_result = "Active" /\ TheThreshold >= 1) =>
        /\ TheProposal.result = "Succeeded" <=> for >= TheThreshold
        /\ TheProposal.result = "Failed" => (against >= TheThreshold /\ for < TheThreshold)
        /\ TheProposal.result = "Active" => (for < TheThreshold /\ against < TheThreshold)

\* With threshold 2, two Against votes made the Active proposal Failed.
C8_Witness ==
    /\ initial_result = "Active"
    /\ TheThreshold = 2
    /\ TheProposal.result = "Failed"
    /\ Tally(TheProposal.votes, TallySlots, 2) = 2
    /\ last = "Ok"

(* C9: a call that passes the checks before the membership check and whose
   signer is not among members[0..num_members) is rejected with NotAMember,
   listed in active_members or not; a call that passes the checks before the
   eligibility check and whose voter is not in active_members is rejected with
   NotEligible; and whatever else holds of it, a call of a non-member or of a
   voter outside active_members fails and writes nothing. *)
C9_MembershipGate ==
    \A c \in Calls :
        (~Pre(c, 5) \/ ~Pre(c, 10)) =>
            \A r \in {ProcessVote(Store, c)} :
            /\ r.res # "Ok" /\ r.proposals = proposals /\ r.ballots = ballots
            /\ (PreUpTo(c, 4) /\ ~Pre(c, 5)) => r.res = "NotAMember"
            /\ (PreUpTo(c, 9) /\ ~Pre(c, 10)) => r.res = "NotEligible"

\* A signer listed in active_members but outside the group was turned away as
\* no member, and a member left out of active_members is turned away as not eligible.
C9_Witness ==
    /\ last = "NotAMember"
    /\ \E c \in Calls : /\ PreUpTo(c, 4) /\ ~Pre(c, 5)
                        /\ c.voter \in proposals[c.proposal_state].active_members
    /\ \E c \in Calls : /\ PreUpTo(c, 9) /\ ~Pre(c, 10)
                        /\ ProcessVote(Store, c).res = "NotEligible"

(* C10: a call that passes the checks before the proposal-address check and
   supplies a proposal record at another address than the one derived from
   (multisig, proposal_id, bump) is rejected with BadAddress, and so is a call
   that passes the checks before the ballot-address check and supplies a
   vote-state record at another address than the derived one; and whatever
   else holds of it, a call whose proposal or vote-state record is not at the
   derived address fails and writes nothing. *)
C10_AddressBinding ==
    \A c \in Calls :
        (~Pre(c, 6) \/ ~Pre(c, 11)) =>
            \A r \in {ProcessVote(Store, c)} :
            /\ r.res # "Ok" /\ r.proposals = proposals /\ r.ballots = ballots
            /\ (PreUpTo(c, 5) /\ ~OnCurve(proposal_seed(c)) /\ ~Pre(c, 6))
                  => r.res = "BadProposalAddress"
            /\ (PreUpTo(c, 10) /\ ~Pre(c, 11)) => r.res = "BadBallotAddress"

\* A vote that named another group's ballot for an Active, unexpired proposal
\* was turned away, and a well-formed proposal record at a foreign address is too.
C10_Witness ==
    /\ last = "BadBallotAddress"
    /\ TheProposal.result = "Active"
    /\ \E c \in Calls : /\ PreUpTo(c, 5) /\ ~Pre(c, 6) /\ Pre(c, 7) /\ Pre(c, 8)
                        /\ Pre(c, 9) /\ Pre(c, 10)
                        /\ ProcessVote(Store, c).res = "BadProposalAddress"

(* C11: a call that passes the checks before the expiry check (preconditions
   0..8) while the clock is past proposal.expiry is rejected with
   ProposalExpired, whatever holds of the voter's eligibility and of the
   vote-state record, and writes nothing; every call made past the expiry
   fails and writes nothing; and no call made at current_time = expiry is
   rejected for expiry. *)
C11_ExpiryGate ==
    \A c \in Calls : \A r \in {ProcessVote(Store, c)} :
        /\ (~Pre(c, 9) /\ PreUpTo(c, 8)) => r = Reject(Store, "ProposalExpired")
        /\ now > proposals[c.proposal_state].expiry
              => (r.res # "Ok" /\ r.proposals = proposals /\ r.ballots = ballots)
        /\ now = proposals[c.proposal_state].expiry => r.res # "ProposalExpired"

\* A vote on the Active proposal is turned away after the expiry, and the vote
\* of a voter outside active_members is turned away for expiry too; the vote
\* recorded before was accepted while the clock had not passed the expiry.
C11_Witness ==
    /\ \E c \in ValidVotes : ProcessVote(Store, c).res = "ProposalExpired"
    /\ now > TheProposal.expiry
    /\ TheProposal.result = "Active"
    /\ TheBallot.vote_count = 1
    /\ \E c \in Calls : /\ PreUpTo(c, 8) /\ ~Pre(c, 9) /\ ~Pre(c, 10)
                        /\ ProcessVote(Store, c).res = "ProposalExpired"

(* C12 as stated: a call whose multisig record is owned by a foreign identity
   is rejected with WrongOwner whatever its other inputs are. *)
C12_WrongOwnerFirst ==
    \A c \in ForeignMultisigCalls :
        multisigs[c.multisig].owner # ID => Rejects(c, "WrongOwner")

(* C12: a call whose multisig record is owned by a foreign identity fails and
   writes nothing; it is rejected with WrongOwner when the checks that precede
   the ownership check pass (well-formed request, signer, writable accounts,
   vote_choice not above 3), whatever holds of membership, addresses, status,
   expiry and the vote-state record. *)
C12_WrongOwnerAfterRequestChecks ==
    \A c \in ForeignMultisigCalls : \A r \in {ProcessVote(Store, c)} :
        multisigs[c.multisig].owner # ID =>
            /\ r.res # "Ok" /\ r.proposals = proposals /\ r.ballots = ballots
            /\ (Pre(c, 0) /\ Pre(c, 1) /\ Pre(c, 2) /\ c.vote_choice <= 3)
                  => r.res = "WrongOwner"

\* After an accepted vote, a vote naming the foreign-owned multisig is turned
\* away for its owner, and so is one that also names another group's ballot.
C12_Witness ==
    /\ last = "Ok"
    /\ \E c \in ForeignMultisigCalls : /\ PreUpTo(c, 3) /\ c.vote_state = OTHER_BALLOT
                                       /\ ProcessVote(Store, c).res = "WrongOwner"

\* The first of the preconditions 1..11 that does not hold of the call c.
FirstFailing(c) ==
    CHOOSE k \in 1..11 : ~Pre(c, k) /\ \A j \in 1..(k - 1) : Pre(c, j)

\* The failures the contract gives for precondition k.
FailureOf(k) ==
    CASE k = 1 -> {"Unauthorized"}
      [] k = 2 -> {"NotWritable"}
      [] k = 3 -> {"InvalidChoice"}
      [] k = 4 -> {"WrongOwner"}
      [] k = 5 -> {"NotAMember"}
      [] k = 6 -> {"BadProposalAddress", "InvalidSeeds"}
      [] k = 7 -> {"ProposalMismatch"}
      [] k = 8 -> {"ProposalNotActive"}
      [] k = 9 -> {"ProposalExpired"}
      [] k = 10 -> {"NotEligible"}
      [] k = 11 -> {"BadBallotAddress"}

(* C13: a well-formed call of which one or more of the eleven preconditions
   do not hold returns the failure of the first of them in the listed order
   (for the proposal address: the address mismatch or the failed derivation). *)
C13_EarliestFailureWins ==
    \A c \in AllCalls :
        (Pre(c, 0) /\ \E k \in 1..11 : ~Pre(c, k))
            => ProcessVote(Store, c).res \in FailureOf(FirstFailing(c))

(* C14: every call that returns a failure leaves the proposal records, the
   vote-state records, the multisig records and the config records exactly as
   they were before the call. *)
C14_FailureWritesNothing ==
    \A c \in Calls : \A r \in {ProcessVote(Store, c)} :
        r.res # "Ok" =>
            /\ r.proposals = proposals
            /\ r.ballots = ballots
            /\ r.multisigs = multisigs
            /\ r.configs = configs

\* After one accepted vote on a vote-state account that carries the first
\* member's mark, that member's vote is turned away as a duplicate.
C14_Witness ==
    /\ \E c \in ValidVotes : ProcessVote(Store, c).res = "DuplicateVote"
    /\ ok_calls = 1
    /\ TheBallot.vote_count = 2
    /\ TheBallot.votes[0] # 0

\* The failures of a vote that is a duplicate or comes too late.
UserFailures == {"DuplicateVote", "ProposalExpired"}

\* The failures of a call whose accounts are not writable, not owned by the
\* program or not at the derived address.
StructuralFailures == {"NotWritable", "WrongOwner", "BadProposalAddress", "BadBallotAddress"}

(* C15: the error returned for a duplicate vote or for an expired proposal is
   never the error returned for a call rejected because an account is not
   writable, is owned by another program or is not at the derived address. *)
C15_KindsDistinguishable ==
    \A c \in Calls : \A r \in {ProcessVote(Store, c).res} :
        r \in UserFailures =>
            \A d \in Calls : \A q \in {ProcessVote(Store, d).res} :
                q \in StructuralFailures => ProgramError(r) # ProgramError(q)

\* The accounts after a call with outcome r, at the same clock value.
StoreAfter(r) ==
    [multisigs |-> r.multisigs, configs |-> r.configs, proposals |-> r.proposals,
     ballots |-> r.ballots, now |-> now]

\* The call c, then the call d: the two outcomes and the accounts at the end.
InOrder(c, d) ==
    LET first == ProcessVote(Store, c)
        second == ProcessVote(StoreAfter(first), d)
    IN [c |-> first.res, d |-> second.res,
        proposals |-> second.proposals, ballots |-> second.ballots]

(* C16 as stated: two votes of different voters that both meet the eleven
   preconditions have the same outcomes and leave the same proposal records
   in either order. *)
C16_AnyOrderSameOutcome ==
    \A c \in ValidVotes : \A d \in ValidVotes :
        (c.voter < d.voter /\ PreUpTo(c, 11) /\ PreUpTo(d, 11)) =>
            \A cd \in {InOrder(c, d)} : \A dc \in {InOrder(d, c)} :
                /\ cd.c = dc.c
                /\ cd.d = dc.d
                /\ cd.proposals = dc.proposals

\* The outcome r is a success that leaves the proposal of the call c Active.
KeepsActive(c, r) ==
    r.res = "Ok" /\ r.proposals[c.proposal_state].result = "Active"

(* C16: two votes of different voters of which each, made alone, succeeds and
   leaves the proposal Active, both succeed in either order and leave the same
   proposal and vote-state records. *)
C16_OrderIndependentWhileActive ==
    \A c \in ValidVotes : \A rc \in {ProcessVote(Store, c)} :
        KeepsActive(c, rc) =>
            \A d \in ValidVotes :
                c.voter < d.voter =>
                    \A rd \in {ProcessVote(Store, d)} :
                        KeepsActive(d, rd) =>
                            \A rcd \in {ProcessVote(StoreAfter(rc), d)} :
                            \A rdc \in {ProcessVote(StoreAfter(rd), c)} :
                                /\ rcd.res = "Ok"
                                /\ rdc.res = "Ok"
                                /\ rcd.proposals = rdc.proposals
                                /\ rcd.ballots = rdc.ballots

\* Two members have each voted once on a fresh proposal, the second on the
\* proposal the first had left Active.
C16_Witness ==
    /\ initial_ballot = "absent"
    /\ initial_result = "Active"
    /\ ok_calls = 2
    /\ voted = {1, 2}
    /\ TheProposal.votes[0] # 0
    /\ TheProposal.votes[1] # 0
    /\ TheBallot.vote_count = 2

(* C17: no step changes a multisig record (num_members, members) or a config
   record (min_threshold), whether the call it runs succeeds or fails. *)
C17_GroupAndConfigReadOnly ==
    [][multisigs' = multisigs /\ configs' = configs]_vars

\* A vote was accepted and finished the proposal; the group still has its
\* members and the config a threshold of at least 1.
C17_Witness ==
    /\ last = "Ok"
    /\ initial_result = "Active"
    /\ TheProposal.result \in {"Succeeded", "Failed"}
    /\ TheThreshold >= 1
    /\ multisigs[MULTISIG].members = Members

\* A vote-state record as the contract says it is after its creation.
CreatedBallot(bump) ==
    [owner |-> ID, has_permission |-> TRUE, vote_count |-> 1, bump |-> bump,
     votes |-> [i \in Slots |-> 0]]

(* C18: a call that meets the eleven preconditions, names a vote-state record
   that the program does not own and can fund its creation succeeds and
   leaves that record program-owned with has_permission = true, vote_count = 1,
   bump = the supplied bump and every votes slot zero; a call that does not
   meet the eleven preconditions changes no vote-state record. *)
C18_LazyBallotCreation ==
    \A c \in AllCalls : \A r \in {ProcessVote(Store, c)} :
        /\ (PreUpTo(c, 11) /\ ballots[c.vote_state].owner # ID /\ c.payer_funded)
              => /\ r.res = "Ok"
                 /\ r.ballots = [ballots EXCEPT ![c.vote_state] = CreatedBallot(c.bump)]
        /\ ~PreUpTo(c, 11) => r.ballots = ballots

(* C19: the vote_count of the proposal's vote-state record is the number of
   calls that succeeded, plus the one vote counted on a record that existed
   before; a call that succeeds leaves vote_count at 1 on a record it creates
   and one higher on a record that exists; a call that fails leaves it as it
   was. *)
C19_BallotCounter ==
    /\ TheBallot.vote_count = ok_calls + (IF initial_ballot = "absent" THEN 0 ELSE 1)
    /\ \A c \in Calls : \A r \in {ProcessVote(Store, c)} :
          r.ballots[c.vote_state].vote_count =
              IF r.res # "Ok" THEN ballots[c.vote_state].vote_count
              ELSE IF ballots[c.vote_state].owner # ID THEN 1
              ELSE ballots[c.vote_state].vote_count + 1

\* The record was created by the first vote and counted a second one, and a
\* further vote, which is rejected, leaves the count at 2.
C19_Witness ==
    /\ initial_ballot = "absent"
    /\ ok_calls = 2
    /\ TheBallot.vote_count = 2
    /\ TheBallot.owner = ID
    /\ \E c \in ValidVotes : \E r \in {ProcessVote(Store, c)} :
          r.res = "ProposalNotActive" /\ r.ballots[BALLOT].vote_count = 2

(* C20: no call that succeeds leaves the proposal it voted on Cancelled, and a
   proposal that started Active is Active, Succeeded or Failed in every
   reachable state. *)
C20_NeverCancelled ==
    /\ initial_result = "Active" => TheProposal.result \in {"Active", "Succeeded", "Failed"}
    /\ \A c \in Calls : \A r \in {ProcessVote(Store, c)} :
          r.res = "Ok" => r.proposals[c.proposal_state].result # "Cancelled"

\* The expiry has passed on a proposal that has a vote and reached no
\* threshold: it is still Active, and a vote submitted now is turned away.
C20_Witness ==
    /\ initial_result = "Active"
    /\ now > TheProposal.expiry
    /\ ok_calls >= 1
    /\ Tally(TheProposal.votes, TallySlots, 1) < TheThreshold
    /\ Tally(TheProposal.votes, TallySlots, 2) < TheThreshold
    /\ TheProposal.result = "Active"
    /\ \E c \in ValidVotes : ProcessVote(Store, c) = Reject(Store, "ProposalExpired")

(* C21: every non-zero slot i of the votes of the proposal, which started with
   no votes, has i < num_members and belongs to a member in active_members
   whose call succeeded; and a call that writes a non-zero choice into a slot
   i is made by a signer that is members[i] with i < num_members and is in
   active_members, on a proposal that is Active and not past its expiry. *)
C21_OnlyAuthorisedVotes ==
    /\ \A i \in Slots :
          TheProposal.votes[i] # 0 =>
              /\ i < multisigs[MULTISIG].num_members
              /\ multisigs[MULTISIG].members[i] \in voted
              /\ multisigs[MULTISIG].members[i] \in TheProposal.active_members
    /\ \A k \in ProposalKeys \ {PROPOSAL} : \A i \in Slots : proposals[k].votes[i] = 0
    /\ \A c \in Calls : \A r \in {ProcessVote(Store, c)} :
          \A k \in ProposalKeys : \A i \in Slots :
              (r.proposals[k].votes[i] # proposals[k].votes[i] /\ r.proposals[k].votes[i] # 0) =>
                  /\ k = c.proposal_state
                  /\ c.is_signer
                  /\ i < multisigs[c.multisig].num_members
                  /\ multisigs[c.multisig].members[i] = c.voter
                  /\ c.voter \in proposals[k].active_members
                  /\ proposals[k].result = "Active"
                  /\ now <= proposals[k].expiry

\* The second member's vote is recorded; the first member, left out of
\* active_members, has none, and an unsigned vote of the second member is
\* turned away.
C21_Witness ==
    /\ last = "Ok"
    /\ TheProposal.votes[1] # 0
    /\ TheProposal.votes[0] = 0
    /\ 1 \notin TheProposal.active_members
    /\ \E c \in Calls : ~c.is_signer /\ c.voter = 2
                          /\ ProcessVote(Store, c).res = "Unauthorized"

(* C22: a call that succeeds changes the votes of the proposal it names at
   most in the slot of its voter, leaves proposal_id, expiry, active_members
   and the owner of that proposal as they were, and changes no other
   proposal record. *)
C22_OnlyOwnSlot ==
    \A c \in Calls : \A r \in {ProcessVote(Store, c)} :
        r.res = "Ok" =>
            /\ \A j \in Slots :
                  multisigs[c.multisig].members[j] # c.voter =>
                      r.proposals[c.proposal_state].votes[j] = proposals[c.proposal_state].votes[j]
            /\ r.proposals[c.proposal_state].proposal_id = proposals[c.proposal_state].proposal_id
            /\ r.proposals[c.proposal_state].expiry = proposals[c.proposal_state].expiry
            /\ r.proposals[c.proposal_state].active_members
                  = proposals[c.proposal_state].active_members
            /\ r.proposals[c.proposal_state].owner = proposals[c.proposal_state].owner
            /\ \A k \in ProposalKeys \ {c.proposal_state} : r.proposals[k] = proposals[k]

\* The first member abstained, then the second member's For vote finished the
\* proposal: the first slot still holds the abstention.
C22_Witness ==
    /\ last = "Ok"
    /\ ok_calls = 2
    /\ TheProposal.votes[0] = 3
    /\ TheProposal.votes[1] = 1
    /\ TheProposal.result = "Succeeded"
    /\ TheProposal.proposal_id = PROPOSAL_ID
====
